---- MODULE Spec2Model ----
(***************************************************************************)
(* A model of the authentication core of antonhagser/auth:                 *)
(*   - crypto/src/snowflake.rs: the Snowflake layout and the generator     *)
(*     (SpecSnowflake);                                                    *)
(*   - services/authcore: password login, the TOTP step-up endpoint, the   *)
(*     refresh endpoint, token records and backup codes (SpecAuth).        *)
(* src/ holds files of more than one revision: where a caller and its      *)
(* callee disagree on a signature, the callee's body is modelled with the  *)
(* arguments the caller has at hand.                                       *)
(* The two state machines share one module; each specification leaves the  *)
(* other machine's variables untouched.                                    *)
(***************************************************************************)
EXTENDS Integers, Sequences, FiniteSets, TLC

(***************************************************************************)
(* Snowflake layout.  snowflake.rs:50-52 sets the field widths to 5, 5 and *)
(* 12 bits and uses a 41-bit timestamp in a u64.  TLC's integers are 32    *)
(* bits wide, so the layout is scaled: every shift, mask and maximum below *)
(* is derived from the widths exactly as the source derives it from its    *)
(* own, and only the widths themselves are smaller.                        *)
(***************************************************************************)
TIMESTAMP_BITS == 3
WORKER_ID_BITS == 1
PROCESS_ID_BITS == 1
SEQUENCE_BITS == 2

\* Bounds of the generator's environment.
MaxClock == 3
MaxCalls == 7

Threads == {"th1", "th2"}
NoThread == "none"

Pow2(n) == 2 ^ n

\* snowflake.rs:55-57
MAX_WORKER_ID == Pow2(WORKER_ID_BITS) - 1
MAX_PROCESS_ID == Pow2(PROCESS_ID_BITS) - 1
MAX_SEQUENCE == Pow2(SEQUENCE_BITS) - 1

\* The shifts the source writes as 12, 17 and 22, and the width of the
\* unsigned word (one bit above the timestamp field, as 64 = 41+5+5+12+1).
PROCESS_SHIFT == SEQUENCE_BITS
WORKER_SHIFT == SEQUENCE_BITS + PROCESS_ID_BITS
TIMESTAMP_SHIFT == SEQUENCE_BITS + PROCESS_ID_BITS + WORKER_ID_BITS
WORD_BITS == TIMESTAMP_SHIFT + TIMESTAMP_BITS + 1

\* Unsigned machine arithmetic: x << n and x >> n on a WORD_BITS-wide word,
\* and bitwise or / and.
Shl(x, n) == (x * Pow2(n)) % Pow2(WORD_BITS)

Shr(x, n) == x \div Pow2(n)

RECURSIVE BitOr(_, _)
BitOr(a, b) ==
    IF a = 0 THEN b
    ELSE IF b = 0 THEN a
    ELSE (IF (a % 2 = 1) \/ (b % 2 = 1) THEN 1 ELSE 0)
         + 2 * BitOr(a \div 2, b \div 2)

RECURSIVE BitAnd(_, _)
BitAnd(a, b) ==
    IF a = 0 \/ b = 0 THEN 0
    ELSE (IF (a % 2 = 1) /\ (b % 2 = 1) THEN 1 ELSE 0)
         + 2 * BitAnd(a \div 2, b \div 2)

\* An encoding that leaves the process id out.
from_components_NoProcess(ts, worker, process, seq) ==
    BitOr(BitOr(Shl(ts, TIMESTAMP_SHIFT), Shl(worker, WORKER_SHIFT)),
          seq % Pow2(WORD_BITS))

\* Snowflake::from_components, snowflake.rs:211-213
from_components(ts, worker, process, seq) ==
    BitOr(BitOr(BitOr(Shl(ts, TIMESTAMP_SHIFT), Shl(worker, WORKER_SHIFT)),
                Shl(process, PROCESS_SHIFT)),
          seq % Pow2(WORD_BITS))

\* Snowflake::to_components, snowflake.rs:189-201
to_components(id) ==
    [timestamp |-> BitAnd(Shr(id, TIMESTAMP_SHIFT), Pow2(TIMESTAMP_BITS) - 1),
     worker_id |-> BitAnd(Shr(id, WORKER_SHIFT), Pow2(WORKER_ID_BITS) - 1),
     process_id |-> BitAnd(Shr(id, PROCESS_SHIFT), Pow2(PROCESS_ID_BITS) - 1),
     sequence |-> BitAnd(id, Pow2(SEQUENCE_BITS) - 1)]

\* Snowflake::timestamp / worker_id / process_id / sequence,
\* snowflake.rs:260-277 (the same expressions as to_components, 189-201)
sf_timestamp(id) == BitAnd(Shr(id, TIMESTAMP_SHIFT), Pow2(TIMESTAMP_BITS) - 1)

sf_worker_id(id) == BitAnd(Shr(id, WORKER_SHIFT), Pow2(WORKER_ID_BITS) - 1)

sf_process_id(id) == BitAnd(Shr(id, PROCESS_SHIFT), Pow2(PROCESS_ID_BITS) - 1)

sf_sequence(id) == BitAnd(id, Pow2(SEQUENCE_BITS) - 1)

\* `x as i64` of a WORD_BITS-wide unsigned word: two's complement.
AsSigned(x) == IF x >= Pow2(WORD_BITS - 1) THEN x - Pow2(WORD_BITS) ELSE x

\* Snowflake::to_id_signed, snowflake.rs:252-257: the assertion on
\* timestamp(), then the cast.
to_id_signed(id) ==
    IF sf_timestamp(id) < Pow2(TIMESTAMP_BITS)
    THEN [panicked |-> FALSE, value |-> AsSigned(id)]
    ELSE [panicked |-> TRUE, value |-> 0]

(***************************************************************************)
(* State of one SnowflakeGenerator shared by the threads of Threads.       *)
(***************************************************************************)
VARIABLES
    clock,           \* SystemTime::now() in ms since SNOWFLAKE_EPOCH
    worker_id,       \* SnowflakeGenerator.worker_id
    process_id,      \* SnowflakeGenerator.process_id
    last_timestamp,  \* SnowflakeGenerator.last_timestamp (Mutex<u64>)
    sequence,        \* SnowflakeGenerator.sequence (AtomicU64)
    lock,            \* the thread holding last_timestamp's guard
    sf_pc,           \* each thread's position in next_snowflake
    timestamp,       \* each thread's local `timestamp`
    started,         \* per thread: calls that had returned when its call began
    returned         \* the calls that returned, in order of return

sfVars == <<clock, worker_id, process_id, last_timestamp, sequence, lock,
            sf_pc, timestamp, started, returned>>

\* The state of the authentication service (described further below).
VARIABLES
    now,             \* chrono::Utc::now(), in ticks
    backup_expired,  \* totp_backup_code.expired, per code (committed)
    user_token,      \* the user_token table (committed rows)
    last_login_at,   \* user.last_login_at, per user (NoTime: never)
    requests,        \* requests accepted so far
    task,            \* the request each handler task is serving
    responses,       \* the answers that delivered a token or followed a write
    rejected,        \* the latest of the other answers, where they are watched
                     \* (a set of one answer; empty where they are not)
    user_rows        \* the user rows registration wrote, each with its email
                     \* and credential; tx is the transaction that has not
                     \* committed it yet

answers == <<responses, rejected>>

authVars == <<now, backup_expired, user_token, last_login_at, requests, task,
              responses, rejected, user_rows>>

vars == <<clock, worker_id, process_id, last_timestamp, sequence, lock,
          sf_pc, timestamp, started, returned, now, backup_expired,
          user_token, last_login_at, requests, task, responses, rejected,
          user_rows>>

\* SnowflakeGenerator::new, snowflake.rs:70-80: the asserts admit exactly the
\* ids up to the maxima; the clock reads a value after the epoch.
SnowflakeInit ==
    /\ clock = 1
    /\ worker_id \in 0..MAX_WORKER_ID
    /\ process_id \in 0..MAX_PROCESS_ID
    /\ last_timestamp = 0
    /\ sequence = 0
    /\ lock = NoThread
    /\ sf_pc = [t \in Threads |-> "idle"]
    /\ timestamp = [t \in Threads |-> 0]
    /\ started = [t \in Threads |-> 0]
    /\ returned = <<>>

CallsBegun == Len(returned) + Cardinality({t \in Threads : sf_pc[t] # "idle"})

\* The wall clock advances by a millisecond.
ClockTick ==
    /\ clock < MaxClock
    /\ clock' = clock + 1
    /\ UNCHANGED <<worker_id, process_id, last_timestamp, sequence, lock,
                   sf_pc, timestamp, started, returned>>
    /\ UNCHANGED authVars

\* snowflake.rs:93-97: the caller samples the clock before it asks for the lock.
SampleTime(t) ==
    /\ sf_pc[t] = "idle"
    /\ CallsBegun < MaxCalls
    /\ timestamp' = [timestamp EXCEPT ![t] = clock]
    /\ started' = [started EXCEPT ![t] = Len(returned)]
    /\ sf_pc' = [sf_pc EXCEPT ![t] = "lock"]
    /\ UNCHANGED <<clock, worker_id, process_id, last_timestamp, sequence,
                   lock, returned>>
    /\ UNCHANGED authVars

\* snowflake.rs:117-125: store the timestamp, load the sequence, build the id
\* and return, which drops the guard.
Emitted(t, ts, seq) ==
    [id |-> from_components(ts, worker_id, process_id, seq),
     timestamp |-> ts, sequence |-> seq, started |-> started[t]]

\* snowflake.rs:99-104 and 113-115: take the lock, compare with the stored
\* timestamp and either fetch_add the sequence or store 0.  fetch_add returns
\* the value before the addition.
lock_last_timestamp(t) ==
    /\ sf_pc[t] = "lock"
    /\ lock = NoThread
    /\ IF timestamp[t] = last_timestamp
       THEN /\ sequence' = sequence + 1
            /\ IF sequence > MAX_SEQUENCE
               THEN /\ lock' = t
                    /\ sf_pc' = [sf_pc EXCEPT ![t] = "spin"]
                    /\ UNCHANGED <<last_timestamp, returned>>
               ELSE /\ last_timestamp' = timestamp[t]
                    /\ returned' = Append(returned,
                                          Emitted(t, timestamp[t], sequence'))
                    /\ sf_pc' = [sf_pc EXCEPT ![t] = "idle"]
                    /\ UNCHANGED lock
       ELSE /\ sequence' = 0
            /\ last_timestamp' = timestamp[t]
            /\ returned' = Append(returned, Emitted(t, timestamp[t], 0))
            /\ sf_pc' = [sf_pc EXCEPT ![t] = "idle"]
            /\ UNCHANGED lock
    /\ UNCHANGED <<clock, worker_id, process_id, timestamp, started>>

\* The same step of a caller that is no request of the service.
LockAndDecide(t) ==
    /\ lock_last_timestamp(t)
    /\ UNCHANGED authVars

\* snowflake.rs:105-111: one test of the spin loop; the body samples the clock
\* again.  The guard is held throughout.
SpinWait(t) ==
    /\ sf_pc[t] = "spin"
    /\ lock = t
    /\ timestamp[t] <= last_timestamp
    /\ timestamp' = [timestamp EXCEPT ![t] = clock]
    /\ UNCHANGED <<clock, worker_id, process_id, last_timestamp, sequence,
                   lock, sf_pc, started, returned>>
    /\ UNCHANGED authVars

\* snowflake.rs:105 (loop exit) and 117-125 after the spin.
SpinExit(t) ==
    /\ sf_pc[t] = "spin"
    /\ lock = t
    /\ timestamp[t] > last_timestamp
    /\ last_timestamp' = timestamp[t]
    /\ returned' = Append(returned, Emitted(t, timestamp[t], sequence))
    /\ lock' = NoThread
    /\ sf_pc' = [sf_pc EXCEPT ![t] = "idle"]
    /\ UNCHANGED <<clock, worker_id, process_id, sequence, timestamp, started>>
    /\ UNCHANGED authVars

\* Snowflake::new_from_components, snowflake.rs:166-178, on any four words
\* up to one bit beyond each field (any u64 is accepted), followed by
\* to_components and to_id_signed of the value, which is never mutated.
NewFromComponents ==
    /\ returned = <<>>
    /\ \E ts \in 0..(Pow2(TIMESTAMP_BITS + 1) - 1),
          worker \in 0..(MAX_WORKER_ID + 1),
          process \in 0..(MAX_PROCESS_ID + 1),
          seq \in 0..(MAX_SEQUENCE + 1) :
         LET id == from_components(ts, worker, process, seq)
         IN returned' = <<[id |-> id, timestamp |-> ts, sequence |-> seq,
                           started |-> 0, worker_id |-> worker,
                           process_id |-> process,
                           components |-> to_components(id),
                           signed |-> to_id_signed(id)]>>
    /\ UNCHANGED <<clock, worker_id, process_id, last_timestamp, sequence,
                   lock, sf_pc, timestamp, started>>
    /\ UNCHANGED authVars

\* Snowflake::validate_id, snowflake.rs:229-243, at clock reading now_ms
\* (milliseconds since SNOWFLAKE_EPOCH, as the generator counts them).
validate_id(id, now_ms) ==
    LET components == to_components(id)
    IN IF components.timestamp > now_ms THEN "InvalidTimestamp"
       ELSE IF components.worker_id > MAX_WORKER_ID THEN "InvalidWorkerId"
       ELSE IF components.process_id > MAX_PROCESS_ID THEN "InvalidProcessId"
       ELSE IF components.sequence > MAX_SEQUENCE THEN "InvalidSequenceId"
       ELSE "Ok"

\* TryFrom<i64> for Snowflake, snowflake.rs:326-332: `id as u64` (two's
\* complement), then TryFrom<u64>, snowflake.rs:316-324.
try_from_i64(x, now_ms) == validate_id(x % Pow2(WORD_BITS), now_ms)

\* One conversion of any signed word, at the current clock reading.
TryFromSigned ==
    /\ returned = <<>>
    /\ \E x \in (0 - Pow2(WORD_BITS - 1))..(Pow2(WORD_BITS - 1) - 1) :
         returned' = <<[input |-> x, id |-> x % Pow2(WORD_BITS), at |-> clock,
                        result |-> try_from_i64(x, clock)]>>
    /\ UNCHANGED <<clock, worker_id, process_id, last_timestamp, sequence,
                   lock, sf_pc, timestamp, started>>
    /\ UNCHANGED authVars

ConversionNext ==
    \/ ClockTick
    \/ TryFromSigned

next_snowflake(t) ==
    \/ SampleTime(t)
    \/ LockAndDecide(t)
    \/ SpinWait(t)
    \/ SpinExit(t)

SnowflakeNext ==
    \/ ClockTick
    \/ \E t \in Threads : next_snowflake(t)

(***************************************************************************)
(* The authentication service (services/authcore).  Wall-clock time is     *)
(* counted in ticks, SubSecond of them to the second, so that              *)
(* DateTime::timestamp()'s truncation to whole seconds is part of the      *)
(* model.  The lifetimes the source writes as 5 minutes, 30 days, 1 hour   *)
(* and 1 minute, and the 30 s TOTP interval, are scaled to a few ticks.    *)
(***************************************************************************)
SubSecond == 2
FlowTokenLifetime == 2
RefreshTokenLifetime == 2
AccessTokenLifetime == 2
RefreshedAccessLifetime == 1
TotpInterval == 1
MaxTime == 3
MaxRequests == 2

Tasks == {"t1", "t2"}
TaskOrder == [t \in Tasks |-> IF t = "t1" THEN 1 ELSE 2]
NONE == "none"
NoTime == 0 - 1

\* The persisted users: alice has set up TOTP (with one backup code left),
\* bob has not.  Both have a password credential in application app1.
Users == {"alice", "bob", "carol"}
Applications == {"app1"}
HasTotp(u) == u = "alice"
\* user.basic_auth(): carol has no password credential.
HasPassword(u) == u # "carol"
TotpSecret(u) == IF u = "alice" THEN "secret-alice" ELSE NONE
BackupCodes == {"bk-1"}
CodesOf(u) == IF u = "alice" THEN BackupCodes ELSE {}
IpAddresses == {"ip1", "ip2"}
UserAgents == {"ua1", "ua2"}
\* Logins come from the first address and user agent (the names are
\* interchangeable); verifications from any.
LoginIpAddresses == {"ip1"}
LoginUserAgents == {"ua1"}

\* DateTime::timestamp(): whole seconds.
Timestamp(ticks) == ticks \div SubSecond

\* crypto::totp::generate_hotp, misc/crypto/src/totp.rs:93-108, as the pair
\* it is computed from (collisions of the 6-digit truncation are left out).
generate_hotp(secret, counter) ==
    [kind |-> "totp", secret |-> secret, counter |-> counter]

\* A verification that accepts the code of the current step only.
verify_totp_NoTolerance(input, secret, interval, tolerance, at) ==
    input = generate_hotp(secret, Timestamp(at) \div interval)

\* crypto::totp::verify_totp, misc/crypto/src/totp.rs:143-165
verify_totp(input, secret, interval, tolerance, at) ==
    LET counter == Timestamp(at) \div interval
        low == IF counter >= tolerance THEN counter - tolerance ELSE 0
    IN \E i \in low..(counter + tolerance) : input = generate_hotp(secret, i)

BackupInput(code) == [kind |-> "backup", secret |-> code, counter |-> 0]

\* What a client can type as its second factor: a code of some authenticator
\* step for the right or a wrong secret, or a string with a dash.
MaxCounter == Timestamp(MaxTime) \div TotpInterval
CodeInputs ==
    {generate_hotp("secret-alice", k) : k \in 0..(MaxCounter + 1)}
    \cup {generate_hotp("secret-other", 0)}
    \cup {BackupInput(c) : c \in BackupCodes \cup {"bk-x"}}
NoCode == [kind |-> NONE, secret |-> NONE, counter |-> 0]

\* The codes sent along with a password that is not accepted: none, a code of
\* the authenticator's current step, a backup code.  The code is not read
\* then, so it is drawn only where the answer is watched.
UnreadCodes ==
    {NoCode, generate_hotp("secret-alice", 0)}
    \cup {BackupInput(c) : c \in BackupCodes}

\* code.contains('-'), models/user/totp.rs:58
ContainsDash(code) == code.kind = "backup"

NoToken == [token_type |-> NONE, jti |-> 0]

IdleTask ==
    [pc |-> "idle", route |-> NONE, password |-> NONE, user |-> NONE,
     ip |-> NONE,
     ua |-> NONE, snapshot |-> {}, code |-> NoCode, presented |-> NoToken,
     verified |-> FALSE, record_live |-> FALSE, tx_expire |-> {},
     tx_tokens |-> {}, refresh_row |-> 0, refresh |-> NoToken,
     access |-> NoToken]

\* The answer a handler returns for the request tk; the ghost fields say
\* what the request had done by then.
Response(tk, status, error) ==
    [route |-> tk.route, status |-> status, error |-> error,
     password |-> tk.password,
     user |-> tk.user, code |-> tk.code, presented |-> tk.presented,
     flow_out |-> NoToken, ip |-> tk.ip, ua |-> tk.ua,
     verified |-> tk.verified, refresh_row |-> tk.refresh_row,
     record_live |-> tk.record_live, committed |-> FALSE,
     refresh |-> NoToken, access |-> NoToken]

\* A failure answer; of the request it keeps what was done, not what was
\* sent.
Failure(tk, status, error) ==
    Response([IdleTask EXCEPT !.route = tk.route,
                              !.refresh_row = tk.refresh_row],
             status, error)

AuthInit ==
    /\ now = 0
    /\ backup_expired = [c \in BackupCodes |-> FALSE]
    /\ user_token = {}
    /\ last_login_at = [u \in Users |-> NoTime]
    /\ task = [t \in Tasks |-> IdleTask]
    /\ responses = {}
    /\ requests = 0
    /\ user_rows = {}

\* `rejected` before any answer, and where the answers that leave nothing
\* behind are not watched.
NoAnswer == {Response(IdleTask, NONE, NONE)}
Unwatched == {}

\* An error arm that passes the kind of the error on to the caller.
LoginErrorResponse_Verbatim(error) ==
    [status |-> "Unauthorized", error |-> error,
     message |-> "Invalid email or password"]

\* http/modules/basic/login.rs:84-129: the status, error and message the
\* login route sends for an error of with_basic_auth.
LoginErrorResponse(error) ==
    IF error = "NeedFurtherVerificationThrough2FA"
    THEN [status |-> "Unauthorized", error |-> error,
          message |-> "The user needs to verify their identity through 2FA"]
    ELSE IF error = "GenerateFlowTokenError"
    THEN [status |-> "InternalServerError", error |-> "InternalServerError",
          message |-> "A TOTP flow token could not be created"]
    ELSE [status |-> "Unauthorized", error |-> "Unauthorized",
          message |-> "Invalid email or password"]

\* The answer of the login route to the request tk that failed with `error`.
LoginFailure(tk, error) ==
    Response(tk, LoginErrorResponse(error).status, error)

\* The answer to a login whose application or user was not found, with the
\* application id and the email that were sent.
LookupFailure(tk, application_id, email, error) ==
    LoginFailure(tk, error)
        @@ [application_id |-> application_id, email |-> email]

\* Returning from a handler drops its transaction client: what it wrote is
\* rolled back unless it was committed.  An answer that delivers no token
\* and follows no write leaves nothing behind.
Reply(t, r) ==
    LET kept == r.status = "OK" \/ r.flow_out # NoToken \/ r.refresh_row # 0
    IN /\ responses' = IF kept THEN responses \cup {r} ELSE responses
       /\ rejected' = IF kept \/ rejected = Unwatched THEN rejected ELSE {r}
       /\ task' = [task EXCEPT ![t] = IdleTask]

\* The ids that a row, a token or an answer carries.
UsedIds ==
    {row.id : row \in user_token}
    \cup UNION {{task[t].refresh.jti, task[t].access.jti} : t \in Tasks}
    \cup UNION {{r.flow_out.jti, r.refresh.jti, r.access.jti, r.refresh_row} :
                   r \in responses}

\* state.id_generator().next_snowflake(): an id that nothing in `used`
\* carries (the ids drawn by requests that left no trace are not told apart,
\* so the first free one is taken).
FreshId(used) ==
    CHOOSE i \in 1..(Cardinality(used) + 1) :
        i \notin used /\ \A j \in 1..(i - 1) : j \in used

NextId == FreshId(UsedIds)

Tick ==
    /\ now < MaxTime
    /\ now' = now + 1
    /\ UNCHANGED <<backup_expired, user_token, last_login_at, task,
                   answers>>
    /\ UNCHANGED <<requests, user_rows, sfVars>>

\* TOTP::get, models/user/totp.rs:40-54: the user's codes with expired = false,
\* as committed when the user is loaded.
UnexpiredCodes(u) == {c \in CodesOf(u) : ~backup_expired[c]}

\* A row a transaction has updated stays locked until that transaction ends.
RowFree(t, c) == \A o \in Tasks \ {t} : c \notin task[o].tx_expire

\* An arriving request is served by the first idle task.
Serves(t) ==
    /\ task[t].pc = "idle"
    /\ \A o \in Tasks : task[o].pc = "idle" => TaskOrder[t] <= TaskOrder[o]

\* A new request.  Its inputs (body fields, client address, user-agent
\* header) are drawn where the handler first reads them.
NewRequest(route) == [IdleTask EXCEPT !.route = route]

\* A lookup that searches the user before it resolves the application.
find_user_UserFirst(application_id, email) ==
    IF email \notin Users THEN "NotFound"
    ELSE IF application_id \notin Applications THEN "ApplicationDoesNotExist"
    ELSE "found"

\* core/basic/login.rs:63-92: ReplicatedApplication::get, then
\* User::find_by_email within the application; the error of the first that
\* finds nothing.
find_user(application_id, email) ==
    IF application_id \notin Applications THEN "ApplicationDoesNotExist"
    ELSE IF email \notin Users THEN "NotFound"
    ELSE "found"

\* core/basic/login.rs:63-92: resolve the application, then the user by email
\* within it, loading the password credential and the TOTP with its codes.
LoginStart(t) ==
    /\ Serves(t)
    /\ requests < MaxRequests
    /\ requests' = requests + 1
    /\ \E email \in Users \cup {"nobody"}, app \in Applications \cup {"appX"} :
         LET tk == NewRequest("login")
             found == find_user(app, email)
         IN
         IF found # "found"
         THEN Reply(t, LookupFailure(tk, app, email, found))
         ELSE /\ task' = [task EXCEPT ![t] =
                    [tk EXCEPT !.pc = "login_password", !.user = email,
                               !.snapshot = UnexpiredCodes(email)]]
              /\ UNCHANGED answers
    /\ UNCHANGED <<now, backup_expired, user_token, last_login_at>>
    /\ UNCHANGED <<user_rows, sfVars>>

\* A verification that accepts whatever it is given.
totp_verify_AnyCode(tk, code, expire_ok) == "true"

\* TOTP::verify, models/user/totp.rs:56-80, on the codes loaded in tk and, for
\* a backup code found among them, the outcome of expire_a_backup_code:
\* "true", "false" or "error".  `expire_ok` is whether the update succeeds.
totp_verify(tk, code, expire_ok) ==
    IF ContainsDash(code)
    THEN IF code.secret \in tk.snapshot
         THEN (IF expire_ok THEN "true" ELSE "error")
         ELSE "false"
    ELSE IF verify_totp(code, TotpSecret(tk.user), TotpInterval, 1, now)
         THEN "true" ELSE "false"

\* The instants at which a code is verified, and the authenticator steps a
\* code is taken from: two beyond the verifier's last.
TotpHorizon == 20
TotpCounters == 0..(Timestamp(TotpHorizon) \div TotpInterval + 2)

\* TOTP::verify, models/user/totp.rs:56-80, on a code of alice's
\* authenticator for some step, at the instant `now`.
VerifyCode(t) ==
    /\ \E k \in TotpCounters :
         LET code == generate_hotp(TotpSecret("alice"), k)
             tk == [NewRequest("totp") EXCEPT !.user = "alice",
                                              !.code = code]
         IN task' = [task EXCEPT ![t] =
               [tk EXCEPT !.verified = (totp_verify(tk, code, TRUE) = "true")]]
    /\ UNCHANGED <<now, backup_expired, user_token, last_login_at, answers>>
    /\ UNCHANGED <<requests, user_rows, sfVars>>

\* The backup code a call of TOTP::verify marks expired, if any.
ExpiredBy(tk, code, result) ==
    IF ContainsDash(code) /\ result = "true" THEN {code.secret} ELSE {}

\* crypto/src/password.rs:35-48: the PHC string of a password.
hash_and_salt_password(password) == [phc |-> "argon2id", of |-> password]

\* The hash stored with a user's password credential.
password_hash(user) == hash_and_salt_password("right")

\* A verification that accepts every password.
verify_password_Any(password, hash) == TRUE

\* crypto/src/password.rs:57-71: whether the password matches the hash.
verify_password(password, hash) == hash = hash_and_salt_password(password)

\* A check that tells a missing credential from a wrong password.
check_password_Telling(user, password) ==
    IF ~HasPassword(user) THEN "NoPasswordSet"
    ELSE IF ~verify_password(password, password_hash(user))
    THEN "WrongCredentials"
    ELSE "ok"

\* core/basic/login.rs:94-105: WrongCredentials when the user has no
\* password credential, and when the password does not verify against its
\* hash.
check_password(user, password) ==
    IF ~HasPassword(user) THEN "WrongCredentials"
    ELSE IF ~verify_password(password, password_hash(user))
    THEN "WrongCredentials"
    ELSE "ok"

\* core/basic/login.rs:94-128: password, then the second factor.  The code is
\* verified with the pool client, so an expiry is committed at once; anything
\* but a verified code is Wrong2FA.
LoginCheck(t) ==
    /\ task[t].pc = "login_password"
    /\ \E password \in {"right", "wrong"} :
       \E code \in IF password = "right" /\ HasPassword(task[t].user)
                   THEN (IF HasTotp(task[t].user)
                         THEN CodeInputs \cup {NoCode} ELSE {NoCode})
                   ELSE (IF rejected = Unwatched THEN {NoCode}
                         ELSE UnreadCodes) :
       \E expire_ok \in IF password = "right"
                           /\ code.secret \in task[t].snapshot
                        THEN BOOLEAN ELSE {TRUE} :
         LET tk == [task[t] EXCEPT !.code = code, !.password = password]
             checked == check_password(tk.user, password)
             result == totp_verify(tk, code, expire_ok)
             hit == ExpiredBy(tk, code, result)
         IN
         IF checked # "ok"
         THEN /\ Reply(t, LoginFailure(tk, checked))
              /\ UNCHANGED backup_expired
         ELSE IF ~HasTotp(tk.user)
         THEN /\ task' = [task EXCEPT ![t] = [tk EXCEPT !.pc = "issue"]]
              /\ UNCHANGED <<answers, backup_expired>>
         ELSE IF code = NoCode
         THEN /\ task' = [task EXCEPT ![t] = [tk EXCEPT !.pc = "login_flow"]]
              /\ UNCHANGED <<answers, backup_expired>>
         ELSE /\ \A c \in hit : RowFree(t, c)
              /\ backup_expired' =
                    [c \in BackupCodes |-> backup_expired[c] \/ c \in hit]
              /\ IF result = "true"
                 THEN /\ task' = [task EXCEPT ![t] =
                            [tk EXCEPT !.pc = "login_update",
                                       !.verified = TRUE]]
                      /\ UNCHANGED answers
                 ELSE Reply(t, LoginFailure(tk, "Wrong2FA"))
    /\ UNCHANGED <<now, user_token, last_login_at>>
    /\ UNCHANGED <<requests, user_rows, sfVars>>

\* core/basic/login.rs:132-145: record the last login; a failed update ends
\* the login with QueryError.
LoginUpdate(t) ==
    /\ task[t].pc = "login_update"
    /\ \/ /\ last_login_at' = [last_login_at EXCEPT ![task[t].user] = now]
          /\ task' = [task EXCEPT ![t].pc = "issue"]
          /\ UNCHANGED answers
       \/ /\ Reply(t, LoginFailure(task[t], "QueryError"))
          /\ UNCHANGED last_login_at
    /\ UNCHANGED <<now, backup_expired, user_token>>
    /\ UNCHANGED <<requests, user_rows, sfVars>>

\* FlowTokenClaims as new_totp_flow_token fills them, core/totp.rs:106-119.
\* The route binds the client address and the user-agent header, or "" when
\* there is none (http/modules/basic/login.rs:92-101).
FlowClaims(tk, token_id, exp) ==
    [token_type |-> "totp_flow", sub |-> tk.user, exp |-> Timestamp(exp),
     jti |-> token_id, device_id |-> NONE, session_id |-> NONE,
     ip_address |-> tk.ip,
     user_agent |-> IF tk.ua = NONE THEN "" ELSE tk.ua]

\* A row that does not hold the token.
TokenRow_WithoutToken(tk, id, kind, token, expires_at) ==
    [id |-> id, user_id |-> tk.user, token_type |-> kind, token |-> NoToken,
     expires_at |-> expires_at]

\* A user_token row.
TokenRow(tk, id, kind, token, expires_at) ==
    [id |-> id, user_id |-> tk.user, token_type |-> kind, token |-> token,
     expires_at |-> expires_at]

\* http/modules/basic/login.rs:87-122 with new_totp_flow_token,
\* core/totp.rs:98-132: mint the flow token, store its row with the pool
\* client and answer NeedFurtherVerificationThrough2FA.
LoginFlow(t) ==
    /\ task[t].pc = "login_flow"
    /\ \E ip \in LoginIpAddresses, ua \in LoginUserAgents \cup {NONE} :
         LET tk == [task[t] EXCEPT !.ip = ip, !.ua = ua]
             exp == now + FlowTokenLifetime
             token_id == NextId
             claims == FlowClaims(tk, token_id, exp)
         IN \/ /\ user_token' = user_token \cup
                      {TokenRow(tk, token_id, "TotpFlow", claims, exp)}
               /\ Reply(t, [LoginFailure(tk,
                                          "NeedFurtherVerificationThrough2FA")
                               EXCEPT !.flow_out = claims])
            \/ /\ Reply(t, LoginFailure(task[t], "GenerateFlowTokenError"))
               /\ UNCHANGED user_token
    /\ UNCHANGED <<now, backup_expired, last_login_at>>
    /\ UNCHANGED <<requests, user_rows, sfVars>>

\* DefaultClaims of a refresh token, core/token/refresh.rs:57-63, and of an
\* access token, core/token/access.rs:29-38.
RefreshClaims(user, token_id, exp) ==
    [token_type |-> "paseto", sub |-> user, aud |-> NONE, exp |-> exp,
     jti |-> token_id, refresh_token_id |-> 0]

AccessClaims(user, token_id, exp, refresh_token_id) ==
    [token_type |-> "paseto", sub |-> user, aud |-> "AuthCore", exp |-> exp,
     jti |-> token_id, refresh_token_id |-> refresh_token_id]

\* http/modules/basic/login.rs:132-171 and create_refresh_and_access_token,
\* core/basic/login.rs:163-190, called at http/modules/totp/verify.rs:172-194:
\* inside the transaction write the refresh row, then mint the access token.
\* A failure returns InternalServerError and the transaction is rolled back.
\* new_refresh_token, core/token/refresh.rs:49-72: the claims and the row
\* carry the same id.
new_refresh_token(tk, token_id) ==
    LET rexp == now + RefreshTokenLifetime
        refresh == RefreshClaims(tk.user, token_id, rexp)
        row == TokenRow(tk, token_id, "Refresh", refresh, rexp)
    IN [tk EXCEPT !.tx_tokens = {row}, !.refresh_row = row.id,
                  !.refresh = refresh]

\* new_access_token, core/token/access.rs:22-41, for the refresh token the
\* request holds.
new_access_token(tk, token_id) ==
    [tk EXCEPT !.pc = "commit",
               !.access = AccessClaims(tk.user, token_id,
                                       now + AccessTokenLifetime,
                                       tk.refresh_row)]

IssueTokens(t) ==
    /\ task[t].pc = "issue"
    /\ LET tk == task[t]
           token_id == NextId
           held == new_refresh_token(tk, token_id)
       IN \/ /\ task' = [task EXCEPT ![t] =
                   new_access_token(held, FreshId(UsedIds \cup {token_id}))]
             /\ UNCHANGED answers
          \/ Reply(t, Response(tk, "InternalServerError", "RefreshTokenError"))
          \/ Reply(t, Failure(held,
                               "InternalServerError", "AccessTokenError"))
    /\ UNCHANGED <<now, backup_expired, user_token, last_login_at>>
    /\ UNCHANGED <<requests, user_rows, sfVars>>

\* What a commit makes durable.
CommitTokens(tk) == user_token \cup tk.tx_tokens

\* A commit that loses the expiry written in the transaction.
CommitExpired_Dropped(tk) == backup_expired

CommitExpired(tk) ==
    [c \in BackupCodes |-> backup_expired[c] \/ c \in tk.tx_expire]

\* A failed commit that leaves the transaction's rows behind.
RolledBack_Kept(tk) == user_token \cup tk.tx_tokens

\* The table after tk's transaction failed to commit: its rows are gone.
RolledBack(tk) == user_token

\* http/modules/basic/login.rs:173-186 and http/modules/totp/verify.rs:196-220:
\* commit, and only then answer with the tokens.
CommitAndRespond(t) ==
    /\ task[t].pc = "commit"
    /\ \/ /\ user_token' = CommitTokens(task[t])
          /\ backup_expired' = CommitExpired(task[t])
          /\ Reply(t, [Response(task[t], "OK", NONE)
                          EXCEPT !.committed = TRUE,
                                 !.refresh = task[t].refresh,
                                 !.access = task[t].access])
       \/ /\ Reply(t, Failure(task[t], "InternalServerError", "CommitError"))
          /\ user_token' = RolledBack(task[t])
          /\ UNCHANGED backup_expired
    /\ UNCHANGED <<now, last_login_at>>
    /\ UNCHANGED <<requests, user_rows, sfVars>>

\* A string that is no token of this service (bad signature, wrong key, or
\* not a token at all).
Forged == [token_type |-> "forged"]

\* A code shorter than 6 or longer than 9 characters.
BadLengthCode == [kind |-> "bad_length", secret |-> NONE, counter |-> 0]

\* Flow tokens and refresh tokens that clients hold: the ones answered so far.
DeliveredFlowTokens ==
    {r.flow_out : r \in {x \in responses : x.flow_out # NoToken}}

DeliveredRefreshTokens ==
    {r.refresh : r \in {x \in responses : x.refresh # NoToken}}

\* JWT::verify_token, misc/crypto/src/tokens/jsonwebtoken.rs:146-173: the
\* signature, then exp against the current second.
jwt_verify_token(token) ==
    IF token = Forged THEN FALSE
    ELSE ~(token.exp < Timestamp(now))

\* UserToken::get as core/totp.rs:222-223 and core/token/refresh.rs:92-98 call
\* it: the rows with this user, token id and kind.
UserToken_get(user_id, id, kind) ==
    {row \in user_token :
        row.user_id = user_id /\ row.id = id /\ row.token_type = kind}

\* A verification that names the binding field that did not match.
internal_verify_totp_flow_token_Telling(claims, device_id, session_id, user_agent) ==
    IF Timestamp(now) > claims.exp THEN "Expired"
    ELSE IF claims.token_type # "totp_flow" THEN "Invalid"
    ELSE IF device_id # NONE /\ claims.device_id # device_id
    THEN "DeviceMismatch"
    ELSE IF session_id # NONE /\ claims.session_id # session_id
    THEN "SessionMismatch"
    ELSE IF user_agent # NONE /\ claims.user_agent # user_agent
    THEN "UserAgentMismatch"
    ELSE "Invalid"

\* internal_verify_totp_flow_token, core/totp.rs:179-234: "ok", "Expired",
\* "Invalid" or "FetchToken".  A binding field is compared only when the
\* caller observed a value for it.
internal_verify_totp_flow_token(claims, device_id, session_id, user_agent) ==
    IF Timestamp(now) > claims.exp THEN "Expired"
    ELSE IF claims.token_type # "totp_flow" THEN "Invalid"
    ELSE IF device_id # NONE /\ claims.device_id # device_id THEN "Invalid"
    ELSE IF session_id # NONE /\ claims.session_id # session_id THEN "Invalid"
    ELSE IF user_agent # NONE /\ claims.user_agent # user_agent THEN "Invalid"
    ELSE LET rows == UserToken_get(claims.sub, claims.jti, "TotpFlow") IN
         IF rows = {} THEN "FetchToken"
         ELSE IF \E row \in rows : row.token # claims THEN "Invalid"
         ELSE "ok"

\* The flow token new_totp_flow_token (core/totp.rs:98-132) made for alice
\* at instant 0, and its row.
IssuedFlow ==
    FlowClaims([IdleTask EXCEPT !.user = "alice", !.ip = "ip1", !.ua = "ua1"],
               1, FlowTokenLifetime)

IssuedFlowRow ==
    TokenRow([IdleTask EXCEPT !.user = "alice"], 1, "TotpFlow", IssuedFlow,
             FlowTokenLifetime)

\* Claims that JWT::verify_token hands to internal_verify_totp_flow_token:
\* the issued ones, and ones of another token type or bound to a device or
\* a session.
SignedFlows ==
    {IssuedFlow, [IssuedFlow EXCEPT !.token_type = "other"],
     [IssuedFlow EXCEPT !.device_id = "dev1"],
     [IssuedFlow EXCEPT !.session_id = "s1"]}

\* verify_totp_flow_token, core/totp.rs:146-177, from the verified signature
\* on, with what the caller observed; the answer is the function's result.
VerifyFlowToken ==
    /\ \E claims \in SignedFlows,
          device_id \in {NONE, "dev1", "dev2"},
          session_id \in {NONE, "s1"},
          user_agent \in UserAgents \cup {NONE} :
         rejected' =
            {[claims |-> claims, device_id |-> device_id,
              session_id |-> session_id, user_agent |-> user_agent,
              result |-> internal_verify_totp_flow_token(
                             claims, device_id, session_id, user_agent)]}
    /\ UNCHANGED <<now, backup_expired, user_token, last_login_at, requests,
                   task, responses, user_rows, sfVars>>

\* http/modules/totp/verify.rs:34-92 with verify_totp_flow_token,
\* core/totp.rs:146-156: the code's length, begin the transaction, verify the
\* token's signature and expiry.
VerifyStart(t) ==
    /\ Serves(t)
    /\ requests < MaxRequests
    /\ requests' = requests + 1
    /\ \E token \in DeliveredFlowTokens \cup {Forged},
          length_ok \in BOOLEAN :
         LET tk == [NewRequest("verify")
                       EXCEPT !.presented = token,
                              !.code = IF length_ok THEN NoCode
                                       ELSE BadLengthCode]
         IN
         IF ~length_ok
         THEN Reply(t, Response(tk, "BadRequest", "BadRequest"))
         ELSE \/ Reply(t, Response(tk, "InternalServerError", "BeginError"))
              \/ IF jwt_verify_token(token)
                 THEN /\ task' = [task EXCEPT ![t] =
                            [tk EXCEPT !.pc = "verify_flow"]]
                      /\ UNCHANGED answers
                 ELSE Reply(t, Response(tk, "Unauthorized", "Invalid"))
    /\ UNCHANGED <<now, backup_expired, user_token, last_login_at>>
    /\ UNCHANGED <<user_rows, sfVars>>

\* Whether, now, a row of this token's user, id and kind exists that has not
\* expired (recorded with each accepted verification).
LiveRecord(token, kind) ==
    \E row \in UserToken_get(token.sub, token.jti, kind) :
        ~(row.expires_at < now)

\* http/modules/totp/verify.rs:84-119 with core/totp.rs:158-177: the claims
\* and the stored row, read with the pool client.  The route observes no
\* device id, no session id and the user-agent header.
VerifyFlow(t) ==
    /\ task[t].pc = "verify_flow"
    /\ \E ip \in IpAddresses, ua \in UserAgents \cup {NONE} :
         LET tk == [task[t] EXCEPT !.ip = ip, !.ua = ua]
             result == internal_verify_totp_flow_token(tk.presented, NONE,
                                                       NONE, ua)
         IN CASE result = "ok" ->
                   /\ task' = [task EXCEPT ![t] =
                         [tk EXCEPT !.pc = "verify_user",
                                    !.user = tk.presented.sub,
                                    !.record_live = LiveRecord(tk.presented,
                                                               "TotpFlow")]]
                   /\ UNCHANGED answers
              [] result = "Expired" ->
                   Reply(t, Response(tk, "Unauthorized", "Expired"))
              [] OTHER ->
                   Reply(t, Response(tk, "Unauthorized", "Invalid"))
    /\ UNCHANGED <<now, backup_expired, user_token, last_login_at>>
    /\ UNCHANGED <<requests, user_rows, sfVars>>

\* http/modules/totp/verify.rs:121-156: load the user with its TOTP (and the
\* codes not yet expired) inside the transaction.  The observed address and
\* user agent have been compared by now; a token row's ip_address and
\* user_agent columns are not modelled, so they are not carried further.
VerifyUser(t) ==
    /\ task[t].pc = "verify_user"
    /\ \/ IF HasTotp(task[t].user)
          THEN /\ task' = [task EXCEPT ![t] =
                     [task[t] EXCEPT !.pc = "verify_totp",
                                     !.ip = NONE, !.ua = NONE,
                                     !.snapshot = UnexpiredCodes(task[t].user)]]
               /\ UNCHANGED answers
          ELSE Reply(t, Response(task[t], "InternalServerError", "NoTotp"))
       \/ Reply(t, Response(task[t], "InternalServerError", "UserGetError"))
    /\ UNCHANGED <<now, backup_expired, user_token, last_login_at>>
    /\ UNCHANGED <<requests, user_rows, sfVars>>

\* A rejection that deletes the row of the presented flow token.
RowsAfterRejectedCode_Consumed(tk) ==
    user_token \ UserToken_get(tk.presented.sub, tk.presented.jti, "TotpFlow")

\* http/modules/totp/verify.rs:158-170 and core/totp.rs:165-176: the rows
\* after a code was rejected; the route returns without a write and the
\* token's row is not deleted.
RowsAfterRejectedCode(tk) == user_token

\* http/modules/totp/verify.rs:158-170: verify the code with the transaction
\* client; an error and a wrong code answer alike.
VerifyTotp(t) ==
    /\ task[t].pc = "verify_totp"
    /\ \E code \in CodeInputs :
       \E expire_ok \in IF code.secret \in task[t].snapshot
                        THEN BOOLEAN ELSE {TRUE} :
         LET tk == [task[t] EXCEPT !.code = code]
             result == totp_verify(tk, code, expire_ok)
             hit == ExpiredBy(tk, code, result)
         IN /\ \A c \in hit : RowFree(t, c)
            /\ IF result = "true"
               THEN /\ task' = [task EXCEPT ![t] =
                          [tk EXCEPT !.pc = "issue", !.verified = TRUE,
                                     !.tx_expire = hit]]
                    /\ UNCHANGED <<answers, user_token>>
               ELSE /\ Reply(t, Response(tk, "Unauthorized", "InvalidTotpCode"))
                    /\ user_token' = RowsAfterRejectedCode(tk)
    /\ UNCHANGED <<now, backup_expired, last_login_at>>
    /\ UNCHANGED <<requests, user_rows, sfVars>>

\* paseto::validate_token, misc/crypto/src/tokens/paseto.rs:312-328: the key
\* and the expiration claim.
paseto_validate_token(token) ==
    IF token = Forged THEN FALSE
    ELSE ~(token.exp < now)

\* verify_refresh_token, core/token/refresh.rs:83-105: "ok", "PasetoError",
\* "InternalDatabaseError" (no row) or "TokenExpired".
verify_refresh_token(token) ==
    IF ~paseto_validate_token(token) THEN "PasetoError"
    ELSE LET rows == UserToken_get(token.sub, token.jti, "Refresh") IN
         IF rows = {} THEN "InternalDatabaseError"
         ELSE IF \E row \in rows : row.expires_at < now THEN "TokenExpired"
         ELSE "ok"

\* Option<AccessTokenClaims>: None, or Some payload.
NoPayload == [some |-> FALSE, refresh_token_id |-> 0]
SomePayload(refresh_token_id) ==
    [some |-> TRUE, refresh_token_id |-> refresh_token_id]

\* A conversion that loses the subject.
OwnedClaimsFrom_Anonymous(claims) ==
    [subject |-> NONE, audience |-> claims.aud, token_id |-> claims.jti,
     expiration |-> claims.exp, other |-> NoPayload]

\* From<DefaultClaims> for OwnedClaims<C>, paseto.rs:107-120: the registered
\* claims are copied and `other` is set to None.
OwnedClaimsFrom(claims) ==
    [subject |-> claims.sub, audience |-> claims.aud, token_id |-> claims.jti,
     expiration |-> claims.exp, other |-> NoPayload]

\* paseto::validate_token, paseto.rs:312-329, with its result: the parsed
\* claims converted into OwnedClaims<()>, or a parser error.
validate_token(token) ==
    IF paseto_validate_token(token)
    THEN [ok |-> TRUE, claims |-> OwnedClaimsFrom(token)]
    ELSE [ok |-> FALSE,
          claims |-> [subject |-> NONE, audience |-> NONE, token_id |-> 0,
                      expiration |-> 0, other |-> NoPayload]]

\* verify_access_token, core/token/access.rs:43-50
verify_access_token(token) == validate_token(token)

\* http/modules/session/refresh.rs:28-94: a refresh token from the cookie buys
\* a new access token.
Refresh(t) ==
    /\ Serves(t)
    /\ requests < MaxRequests
    /\ requests' = requests + 1
    /\ \E cookie \in DeliveredRefreshTokens \cup {Forged, NoToken} :
         LET tk == [NewRequest("refresh") EXCEPT !.presented = cookie]
         IN
         IF cookie = NoToken
         THEN Reply(t, Response(tk, "BadRequest", "Unauthorized"))
         ELSE IF verify_refresh_token(cookie) # "ok"
         THEN Reply(t, Response(tk, "Unauthorized",
                               verify_refresh_token(cookie)))
         ELSE \/ Reply(t, [Response([tk EXCEPT !.user = cookie.sub,
                                               !.record_live =
                                                   LiveRecord(cookie,
                                                              "Refresh")],
                                    "OK", NONE)
                             EXCEPT !.access =
                                 AccessClaims(cookie.sub, NextId,
                                     now + RefreshedAccessLifetime,
                                     cookie.jti)])
              \/ Reply(t, Response(tk, "InternalServerError",
                                   "AccessTokenError"))
    /\ UNCHANGED <<now, backup_expired, user_token, last_login_at>>
    /\ UNCHANGED <<user_rows, sfVars>>

\* A token row is deleted (revocation). No handler in src/ deletes one; the
\* specification lets a record be "deleted or left to expire".
DeleteTokenRecord ==
    /\ \E row \in user_token : user_token' = user_token \ {row}
    /\ UNCHANGED <<now, backup_expired, last_login_at, task,
                   answers>>
    /\ UNCHANGED <<requests, user_rows, sfVars>>

\* The request ends at an await point without an answer (the client hangs
\* up, the process stops) while its transaction holds writes: they are never
\* committed.  Dropped any earlier, it leaves what a failing step leaves.
Cancel(t) ==
    /\ task[t].pc # "idle"
    /\ task[t].tx_tokens # {} \/ task[t].tx_expire # {}
    /\ task' = [task EXCEPT ![t] = IdleTask]
    /\ UNCHANGED <<now, backup_expired, user_token, last_login_at, answers>>
    /\ UNCHANGED <<requests, user_rows, sfVars>>

\* The emails a registration is sent with: a registered user's, a new one,
\* and one that validate_email rejects.
RegistrationEmails == {"alice", "dave", "not-an-email"}

\* crypto::input::email::validate_email, as core/basic/register.rs:49-52
\* uses it.
validate_email(email) == email # "not-an-email"

\* User::find_by_email as core/basic/register.rs:54-59 calls it
\* (models/user.rs:54-98, find_first on email_address): an email address row
\* with this address that is committed by now.
EmailExists(email) ==
    \/ email \in Users
    \/ \E row \in user_rows :
          row.kind = "email_address" /\ row.email = email /\ row.tx = NONE

\* The client User::builder writes with.  core/basic/register.rs:105-110
\* passes the pool client, and build (models/user.rs:400-440) commits its own
\* transaction; the register handler passes its transaction's client to a
\* with_basic_auth that takes one, whose writes then belong to the handler's
\* transaction.
RegistrationClients == {"pool", "transaction"}

\* The rows left when the transaction of task t ends without a commit.
RolledBack_rows(t) == {row \in user_rows : row.tx # t}

\* The rows once the transaction of task t has committed.
Committed_rows(t) ==
    {IF row.tx = t THEN [row EXCEPT !.tx = NONE] ELSE row : row \in user_rows}

\* The lifetime of an email verification token: one day, scaled.
VerificationTokenLifetime == 2

\* grpc/auth/basic.rs:41-102: the application id is converted and the
\* transaction begun.
RegisterStart(t) ==
    /\ Serves(t)
    /\ requests < MaxRequests
    /\ requests' = requests + 1
    /\ \E id_ok \in BOOLEAN :
         LET tk == NewRequest("register") IN
         IF ~id_ok
         THEN Reply(t, Response(tk, "InvalidArgument", "ApplicationIdInvalid"))
         ELSE \/ Reply(t, Response(tk, "Internal", "BeginError"))
              \/ /\ task' = [task EXCEPT ![t] =
                        [tk EXCEPT !.pc = "register_core"]]
                 /\ UNCHANGED answers
    /\ UNCHANGED <<now, backup_expired, user_token, last_login_at, user_rows>>
    /\ UNCHANGED sfVars

\* parse_err, grpc/auth/basic.rs:53-94: the status code of a registration
\* error.
parse_err(error) ==
    CASE error \in {"EmailFormat", "PasswordFormat"} -> "InvalidArgument"
      [] error = "AlreadyExists" -> "AlreadyExists"
      [] error = "ApplicationDoesNotExist" -> "NotFound"
      [] OTHER -> "Internal"

\* The answer to the registration tk that failed with `error`.
RegistrationFailure(tk, error) == Response(tk, parse_err(error), error)

\* grpc/auth/basic.rs:104-119 with register::with_basic_auth,
\* core/basic/register.rs:45-122: the email's format, the email already
\* registered, the application, the password's format and its hash.
RegisterCore(t) ==
    /\ task[t].pc = "register_core"
    /\ \E email \in RegistrationEmails, app \in Applications \cup {"appX"},
          password_ok \in BOOLEAN, hash_ok \in BOOLEAN :
         LET tk == [task[t] EXCEPT !.user = email]
             error == IF ~validate_email(email) THEN "EmailFormat"
                      ELSE IF EmailExists(email) THEN "AlreadyExists"
                      ELSE IF app \notin Applications
                      THEN "ApplicationDoesNotExist"
                      ELSE IF ~password_ok THEN "PasswordFormat"
                      ELSE IF ~hash_ok THEN "InternalServerError"
                      ELSE "none"
         IN
         IF error # "none"
         THEN Reply(t, RegistrationFailure(tk, error))
         ELSE /\ task' = [task EXCEPT ![t] =
                    [tk EXCEPT !.pc = "register_user"]]
              /\ UNCHANGED answers
    /\ UNCHANGED <<now, backup_expired, user_token, last_login_at, user_rows>>
    /\ UNCHANGED <<requests, sfVars>>

\* Rows that are written at once, outside any transaction.
WrittenIn_Autocommit(t) == NONE

\* UserBuilder::build, models/user.rs:400-406: the rows are written inside a
\* transaction; they are tagged with the task whose transaction holds them.
WrittenIn(t) == t

\* A row of kind user, email_address or basic_auth that registration writes
\* for the user `user_id`.
UserRow(kind, user_id, email, t, client) ==
    [kind |-> kind, user_id |-> user_id, email |-> email,
     tx |-> WrittenIn(t), client |-> client]

\* The user rows the transaction of task t holds, and the user they are for.
OwnRows(t) == {row \in user_rows : row.tx = t}
OwnUserId(t) == CHOOSE id \in {row.user_id : row \in OwnRows(t)} : TRUE

\* EmailAddressBuilder::build, models/user/email_address.rs:168-192, under
\* the unique index on an address within an application: a second row with
\* the same address is a query error.
email_address_create(email) ==
    IF EmailExists(email) THEN "QueryError" ELSE "created"

\* core/basic/register.rs:126-139: the error of a failed build.
BuildError == {"InternalServerError", "ApplicationDoesNotExist"}

\* UserBuilder::build, models/user.rs:407-417, called at
\* core/basic/register.rs:126: the user row, with a new id.
RegisterUser(t) ==
    /\ task[t].pc = "register_user"
    /\ \/ \E client \in RegistrationClients :
            LET user_id == FreshId({row.user_id : row \in user_rows}) IN
            /\ user_rows' = user_rows \cup
                  {UserRow("user", user_id, task[t].user, t, client)}
            /\ task' = [task EXCEPT ![t].pc = "register_email_address"]
            /\ UNCHANGED answers
       \/ /\ \E error \in BuildError :
               Reply(t, RegistrationFailure(task[t], error))
          /\ UNCHANGED user_rows
    /\ UNCHANGED <<now, backup_expired, user_token, last_login_at>>
    /\ UNCHANGED <<requests, sfVars>>

\* UserBuilder::build, models/user.rs:419-423: the email address row.  The
\* insert waits while another transaction holds an uncommitted row with the
\* same address; a query error, the unique index's included, ends the build
\* and its transaction and is InternalServerError
\* (core/basic/register.rs:128-139).
RegisterEmailAddress(t) ==
    /\ task[t].pc = "register_email_address"
    /\ LET email == task[t].user
           row == UserRow("email_address", OwnUserId(t), email, t,
                          (CHOOSE r \in OwnRows(t) : TRUE).client)
       IN
       /\ ~\E o \in user_rows :
             o.kind = "email_address" /\ o.email = email
                 /\ o.tx \notin {NONE, t}
       /\ \/ /\ email_address_create(email) = "created"
             /\ user_rows' = user_rows \cup {row}
             /\ task' = [task EXCEPT ![t].pc = "register_basic_auth"]
             /\ UNCHANGED answers
          \/ /\ Reply(t, RegistrationFailure(task[t], "InternalServerError"))
             /\ user_rows' = RolledBack_rows(t)
    /\ UNCHANGED <<now, backup_expired, user_token, last_login_at>>
    /\ UNCHANGED <<requests, sfVars>>

\* UserBuilder::build, models/user.rs:425-445: the credential row, then the
\* build's transaction commits when it is the build's own (pool client).
RegisterBasicAuth(t) ==
    /\ task[t].pc = "register_basic_auth"
    /\ LET client == (CHOOSE r \in OwnRows(t) : TRUE).client
           row == UserRow("basic_auth", OwnUserId(t), task[t].user, t, client)
       IN \/ /\ user_rows' =
                   IF client = "pool"
                   THEN {IF r.tx = t THEN [r EXCEPT !.tx = NONE] ELSE r :
                            r \in user_rows \cup {row}}
                   ELSE user_rows \cup {row}
             /\ task' = [task EXCEPT ![t].pc = "register_token"]
             /\ UNCHANGED answers
          \/ /\ Reply(t, RegistrationFailure(task[t], "InternalServerError"))
             /\ user_rows' = RolledBack_rows(t)
    /\ UNCHANGED <<now, backup_expired, user_token, last_login_at>>
    /\ UNCHANGED <<requests, sfVars>>

\* generate_generic_token, core/token/generic.rs:31-51: the claims of the
\* verification token.
GenericClaims(user, token_id, exp) ==
    [token_type |-> "paseto", sub |-> user, aud |-> "AuthCore", exp |-> exp,
     jti |-> token_id, refresh_token_id |-> 0]

\* grpc/auth/basic.rs:121-157: the verification method, the verification
\* token and its EmailVerification row, written with the transaction's
\* client.  A method that is unknown or not implemented, a token that cannot
\* be made and a row that cannot be stored end the request.
RegisterToken(t) ==
    /\ task[t].pc = "register_token"
    /\ LET tk == task[t]
           exp == now + VerificationTokenLifetime
           token_id == NextId
           row_id == FreshId(UsedIds \cup {token_id})
           token == GenericClaims(tk.user, token_id, exp)
           row == TokenRow(tk, row_id, "EmailVerification", token, exp)
       IN \/ /\ task' = [task EXCEPT ![t] =
                    [tk EXCEPT !.pc = "register_email", !.tx_tokens = {row}]]
             /\ UNCHANGED <<answers, user_rows>>
          \/ /\ \E error \in {"VerificationMethodInvalid", "GenerateToken",
                               "CreateUserToken"} :
                   Reply(t, Response(tk,
                             IF error = "VerificationMethodInvalid"
                             THEN "InvalidArgument" ELSE "Internal", error))
             /\ user_rows' = RolledBack_rows(t)
    /\ UNCHANGED <<now, backup_expired, user_token, last_login_at>>
    /\ UNCHANGED <<requests, sfVars>>

\* grpc/auth/basic.rs:159-180: the verification email is sent through the
\* email service; its error status is returned with `?`, before the commit.
RegisterEmail(t) ==
    /\ task[t].pc = "register_email"
    /\ \/ /\ task' = [task EXCEPT ![t].pc = "register_commit"]
          /\ UNCHANGED <<answers, user_rows>>
       \/ /\ Reply(t, Response(task[t], "Unavailable", "SendVerificationEmail"))
          /\ user_rows' = RolledBack_rows(t)
    /\ UNCHANGED <<now, backup_expired, user_token, last_login_at>>
    /\ UNCHANGED <<requests, sfVars>>

\* grpc/auth/basic.rs:182-190: commit and answer with the user's id.
RegisterCommit(t) ==
    /\ task[t].pc = "register_commit"
    /\ \/ /\ user_rows' = Committed_rows(t)
          /\ user_token' = user_token \cup task[t].tx_tokens
          /\ Reply(t, [Response(task[t], "OK", NONE)
                          EXCEPT !.committed = TRUE])
       \/ /\ Reply(t, Response(task[t], "Internal", "CommitError"))
          /\ user_rows' = RolledBack_rows(t)
          /\ UNCHANGED user_token
    /\ UNCHANGED <<now, backup_expired, last_login_at>>
    /\ UNCHANGED <<requests, sfVars>>

(***************************************************************************)
(* 2FA setup, http/modules/totp/setup.rs.  The route opens a transaction   *)
(* but hands state.prisma(), the pool client, to every write, so each      *)
(* write is durable when it returns.                                       *)
(***************************************************************************)
\* (0..10) at setup.rs:179: the backup codes made for a secret.
BackupCodesPerSecret == 10

\* The totp rows of a user: the one the user was given before, and the ones
\* setup wrote.
TotpRows(user) ==
    {row \in user_rows : row.kind = "totp" /\ row.user_id = user}

\* A check that finds no user enrolled.
HasSecret_Never(user) == FALSE

\* user.totp().is_some(), setup.rs:107-117, on the user as User::get loaded
\* it.
HasSecret(user) == HasTotp(user) \/ TotpRows(user) # {}

\* The totp table holds one row per user: a second one is refused.
totp_create(user) ==
    IF HasTotp(user) \/ TotpRows(user) # {} THEN "QueryError" ELSE "created"

\* The rows of a setup for `user` that were written when it ended with
\* `outcome`: the totp row (setup.rs:148-155), the backup codes in one
\* create_many (178-195) and the totp_enabled flag (211-220).
SetupRows(user, outcome) ==
    LET row(kind, n) == [kind |-> kind, user_id |-> user, email |-> NONE,
                         tx |-> NONE, client |-> "pool", code |-> n]
        written == CASE outcome = "BackupCodeError" -> {"totp"}
                     [] outcome = "FlagError" -> {"totp", "totp_backup_code"}
                     [] OTHER -> {"totp", "totp_backup_code", "totp_enabled"}
    IN {row(kind, 0) : kind \in written \ {"totp_backup_code"}}
       \cup {row("totp_backup_code", n) :
                n \in IF "totp_backup_code" \in written
                       THEN 1..BackupCodesPerSecret ELSE {}}

\* setup.rs:32-134: the access token, the user with its TOTP, the check that
\* none is enabled, a trial code and the transaction.
SetupStart(t) ==
    /\ Serves(t)
    /\ requests < MaxRequests
    /\ requests' = requests + 1
    /\ \E user \in Users :
         LET tk == [NewRequest("setup") EXCEPT !.user = user]
         IN \/ Reply(t, Response(NewRequest("setup"), "Unauthorized",
                                  "Unauthorized"))
            \/ Reply(t, Response(tk, "InternalServerError", "GetUser"))
            \/ IF HasSecret(user)
               THEN Reply(t, Response(tk, "BadRequest", "AlreadyEnabled"))
               ELSE \/ /\ task' = [task EXCEPT ![t] =
                              [tk EXCEPT !.pc = "setup_create"]]
                       /\ UNCHANGED answers
                    \/ Reply(t, Response(tk, "InternalServerError",
                                         "BeginError"))
    /\ UNCHANGED <<now, backup_expired, user_token, last_login_at>>
    /\ UNCHANGED <<user_rows, sfVars>>

\* setup.rs:136-245: the totp row, the backup codes, the flag and the commit.
\* A step that fails rolls the transaction back and answers 500; the
\* transaction holds none of the writes.
SetupCreate(t) ==
    /\ task[t].pc = "setup_create"
    /\ LET tk == task[t] IN
       \/ /\ Reply(t, Response(tk, "InternalServerError", "TotpCreateError"))
          /\ UNCHANGED user_rows
       \/ /\ totp_create(tk.user) = "created"
          /\ \E outcome \in {"BackupCodeError", "FlagError", "CommitError",
                              "ok"} :
               /\ user_rows' = user_rows \cup SetupRows(tk.user, outcome)
               /\ IF outcome = "ok"
                  THEN Reply(t, Response(tk, "OK", NONE))
                  ELSE Reply(t, Response(tk, "InternalServerError", outcome))
    /\ UNCHANGED <<now, backup_expired, user_token, last_login_at>>
    /\ UNCHANGED <<requests, sfVars>>

SetupNext ==
    \E t \in Tasks :
        \/ SetupStart(t)
        \/ SetupCreate(t)

RegistrationNext ==
    \E t \in Tasks :
        \/ RegisterStart(t)
        \/ RegisterCore(t)
        \/ RegisterUser(t)
        \/ RegisterEmailAddress(t)
        \/ RegisterBasicAuth(t)
        \/ RegisterToken(t)
        \/ RegisterEmail(t)
        \/ RegisterCommit(t)

(***************************************************************************)
(* Issuance with the token ids drawn from the generator: each handler task *)
(* runs on a thread of its own and calls                                   *)
(* state.id_generator().next_snowflake() once for the refresh token        *)
(* (core/token/refresh.rs:55) and once for the access token                *)
(* (core/token/access.rs:32).                                              *)
(***************************************************************************)
ThreadOf(t) == IF t = "t1" THEN "th1" ELSE "th2"

\* The id of the call that returned last.
LastReturned(history) == history[Len(history)].id

\* user_token.id is the key of the table: a row is refused when a row,
\* committed or pending in a transaction, carries its id.
KeyFree(token_id) ==
    /\ \A row \in user_token : row.id # token_id
    /\ \A o \in Tasks : \A row \in task[o].tx_tokens : row.id # token_id

\* snowflake.rs:93-97 in a handler that is about to mint a token.
TokenIdCall(t) ==
    /\ task[t].pc \in {"issue", "issue_access"}
    /\ SampleTime(ThreadOf(t))

\* core/token/refresh.rs:49-72 from the return of next_snowflake on: the
\* claims, the token and the row, written in the request's transaction.
IssueRefresh(t) ==
    /\ task[t].pc = "issue"
    /\ lock_last_timestamp(ThreadOf(t))
    /\ IF sf_pc'[ThreadOf(t)] # "idle"
       THEN UNCHANGED <<task, answers>>
       ELSE LET tk == task[t]
                token_id == LastReturned(returned')
            IN \/ /\ KeyFree(token_id)
                  /\ task' = [task EXCEPT ![t] =
                        [new_refresh_token(tk, token_id)
                            EXCEPT !.pc = "issue_access"]]
                  /\ UNCHANGED answers
               \/ Reply(t, Response(tk, "InternalServerError",
                                    "RefreshTokenError"))
    /\ UNCHANGED <<now, backup_expired, user_token, last_login_at>>
    /\ UNCHANGED <<requests, user_rows>>

\* core/token/access.rs:22-41 from the return of next_snowflake on.
IssueAccess(t) ==
    /\ task[t].pc = "issue_access"
    /\ lock_last_timestamp(ThreadOf(t))
    /\ IF sf_pc'[ThreadOf(t)] # "idle"
       THEN UNCHANGED <<task, answers>>
       ELSE LET tk == task[t]
                token_id == LastReturned(returned')
            IN \/ /\ task' = [task EXCEPT ![t] =
                        new_access_token(tk, token_id)]
                  /\ UNCHANGED answers
               \/ Reply(t, Failure(tk, "InternalServerError",
                                   "AccessTokenError"))
    /\ UNCHANGED <<now, backup_expired, user_token, last_login_at>>
    /\ UNCHANGED <<requests, user_rows>>

\* The login route with its token ids drawn from the generator, up to the
\* answer that delivers the pair.  MaxRequests logins make fewer calls than
\* the spin of next_snowflake needs.
IssuanceNext ==
    \/ ClockTick
    \/ \E t \in Tasks :
          \/ LoginStart(t)
          \/ LoginCheck(t)
          \/ LoginUpdate(t)
          \/ TokenIdCall(t)
          \/ IssueRefresh(t)
          \/ IssueAccess(t)
          \/ CommitAndRespond(t)

AuthNext ==
    \/ Tick
    \/ \E t \in Tasks :
          \/ LoginStart(t)
          \/ LoginCheck(t)
          \/ LoginUpdate(t)
          \/ LoginFlow(t)
          \/ IssueTokens(t)
          \/ CommitAndRespond(t)
          \/ VerifyStart(t)
          \/ VerifyFlow(t)
          \/ VerifyUser(t)
          \/ VerifyTotp(t)
          \/ Refresh(t)
          \/ Cancel(t)

\* The generator alone, with the service at rest.
GeneratorInit == SnowflakeInit /\ AuthInit /\ rejected = Unwatched

SpecSnowflake == GeneratorInit /\ [][SnowflakeNext]_vars

\* The authentication service alone, with one generator at rest.
ServiceInit ==
    /\ AuthInit /\ SnowflakeInit /\ worker_id = 0 /\ process_id = 0
    /\ rejected = Unwatched

SpecAuth == ServiceInit /\ [][AuthNext]_vars

\* The Snowflake value type alone.
SpecLayout == ServiceInit /\ [][NewFromComponents]_vars

\* Conversions into the Snowflake value type, as the clock advances.
SpecConversion == ServiceInit /\ [][ConversionNext]_vars

\* TOTP::verify alone, at any instant up to TotpHorizon.
TotpInit ==
    /\ now \in 0..TotpHorizon
    /\ backup_expired = [c \in BackupCodes |-> FALSE]
    /\ user_token = {}
    /\ last_login_at = [u \in Users |-> NoTime]
    /\ task = [t \in Tasks |-> IdleTask]
    /\ responses = {}
    /\ requests = 0
    /\ user_rows = {}
    /\ SnowflakeInit /\ worker_id = 0 /\ process_id = 0
    /\ rejected = Unwatched

TotpNext == \E t \in {"t1"} : VerifyCode(t)

SpecTotp == TotpInit /\ [][TotpNext]_vars

\* verify_totp_flow_token alone, at any instant up to TotpHorizon, with the
\* token's row stored or not.
FlowVerifyInit ==
    /\ now \in 0..TotpHorizon
    /\ user_token \in {{}, {IssuedFlowRow}}
    /\ backup_expired = [c \in BackupCodes |-> FALSE]
    /\ last_login_at = [u \in Users |-> NoTime]
    /\ task = [t \in Tasks |-> IdleTask]
    /\ responses = {}
    /\ requests = 0
    /\ user_rows = {}
    /\ SnowflakeInit /\ worker_id = 0 /\ process_id = 0
    /\ rejected = Unwatched

SpecFlowVerify == FlowVerifyInit /\ [][VerifyFlowToken]_vars

\* The login route and the generator together.
SpecIssuance == ServiceInit /\ [][IssuanceNext]_vars

\* The service with token rows being deleted under it.
RevocationNext ==
    \/ AuthNext
    \/ DeleteTokenRecord

SpecRevocation == ServiceInit /\ [][RevocationNext]_vars

\* The service handling one request at a time, with every answer watched.
WatchedInit ==
    /\ AuthInit /\ SnowflakeInit /\ worker_id = 0 /\ process_id = 0
    /\ rejected = NoAnswer

\* The setup route alone, with every answer watched.
SpecSetup == WatchedInit /\ [][SetupNext]_vars

\* The register handler alone, with every answer watched.
SpecRegistration == WatchedInit /\ [][RegistrationNext]_vars

WatchedNext ==
    \/ Tick
    \/ \E t \in {"t1"} :
          \/ LoginStart(t)
          \/ LoginCheck(t)
          \/ LoginUpdate(t)
          \/ LoginFlow(t)
          \/ IssueTokens(t)
          \/ CommitAndRespond(t)
          \/ VerifyStart(t)
          \/ VerifyFlow(t)
          \/ VerifyUser(t)
          \/ VerifyTotp(t)
          \/ Refresh(t)
          \/ Cancel(t)

SpecWatched == WatchedInit /\ [][WatchedNext]_vars

\* The longest password tried.
MaxPasswordLen == 3

\* The loop of validate_password, misc/crypto/src/input/password.rs:104-119,
\* over a password given as the sequence of its characters' classes: how
\* many characters fall into one class.
RECURSIVE class_count(_, _)
class_count(password, class) ==
    IF password = <<>> THEN 0
    ELSE (IF Head(password) = class THEN 1 ELSE 0)
         + class_count(Tail(password), class)

\* validate_password, misc/crypto/src/input/password.rs:74-175: the errors
\* it collects, none when the password is accepted.  `strength` is what
\* zxcvbn::zxcvbn returned for the password: an error, or a score 0..4.
validate_password(password, strength, check_strength, requirements) ==
    LET e1 == IF Len(password) < requirements.min_length
              THEN <<"MinLength">> ELSE <<>>
        e2 == IF Len(password) > requirements.max_length
              THEN <<"MaxLength">> ELSE <<>>
        e3 == IF requirements.enable_strict_requirements
                 /\ class_count(password, "lowercase")
                        < requirements.min_lowercase
              THEN <<"LowercaseCount">> ELSE <<>>
        e4 == IF requirements.enable_strict_requirements
                 /\ class_count(password, "uppercase")
                        < requirements.min_uppercase
              THEN <<"UppercaseCount">> ELSE <<>>
        e5 == IF requirements.enable_strict_requirements
                 /\ class_count(password, "numeric")
                        < requirements.min_numbers
              THEN <<"NumberCount">> ELSE <<>>
        e6 == IF requirements.enable_strict_requirements
                 /\ class_count(password, "symbol")
                        < requirements.min_symbols
              THEN <<"SymbolCount">> ELSE <<>>
        e7 == IF check_strength /\ strength.ok /\ strength.score < 2
              THEN <<"NotStrongEnough">> ELSE <<>>
    IN e1 \o e2 \o e3 \o e4 \o e5 \o e6 \o e7

\* One call of validate_password on any password up to MaxPasswordLen
\* characters, any zxcvbn result and a policy an application can configure
\* (PasswordRequirements, password.rs:8-27); with_basic_auth,
\* core/basic/register.rs:86-98, is the caller that checks the strength.
ValidatePassword ==
    /\ rejected = Unwatched
    /\ \E password \in UNION {[1..n -> {"lowercase", "uppercase", "numeric",
                                         "symbol"}] : n \in 0..MaxPasswordLen},
          strength \in {[ok |-> FALSE, score |-> 0]}
                          \cup [ok : {TRUE}, score : 0..4],
          check_strength \in BOOLEAN,
          requirements \in [min_length : 1..2, max_length : 2..3,
                            enable_strict_requirements : BOOLEAN,
                            min_lowercase : 0..1, min_uppercase : {0},
                            min_numbers : 0..1, min_symbols : 0..1,
                            min_zxcvbn_score : 2..3] :
         rejected' =
            {[password |-> password, strength |-> strength,
              check_strength |-> check_strength,
              requirements |-> requirements,
              result |-> validate_password(password, strength,
                                           check_strength, requirements)]}
    /\ UNCHANGED <<now, backup_expired, user_token, last_login_at, requests,
                   task, responses, user_rows, sfVars>>

\* validate_password alone.
SpecPassword == ServiceInit /\ [][ValidatePassword]_vars

\* Time passes for as long as a flow token takes to expire and beyond.
ExpiryHorizon == 5

Elapse ==
    /\ now < ExpiryHorizon
    /\ now' = now + 1
    /\ UNCHANGED <<backup_expired, user_token, last_login_at, task,
                   answers>>
    /\ UNCHANGED <<requests, user_rows, sfVars>>

\* The service handling one request at a time while tokens grow old, with
\* every answer watched.
ExpiryNext ==
    \/ Elapse
    \/ \E t \in {"t1"} :
          \/ LoginStart(t)
          \/ LoginCheck(t)
          \/ LoginUpdate(t)
          \/ LoginFlow(t)
          \/ IssueTokens(t)
          \/ CommitAndRespond(t)
          \/ VerifyStart(t)
          \/ VerifyFlow(t)
          \/ VerifyUser(t)
          \/ VerifyTotp(t)
          \/ Refresh(t)
          \/ Cancel(t)

SpecExpiry == WatchedInit /\ [][ExpiryNext]_vars

\* Call i returned before call j began.
ReturnedBefore(i, j) == i <= returned[j].started

\* C1: all Snowflakes returned by one generator, under any interleaving of
\* its callers and any number of calls in one millisecond, are pairwise
\* distinct.
C1_AllReturnedDistinct ==
    \A i, j \in 1..Len(returned) :
        i # j => returned[i].id # returned[j].id

\* C6: for a returned by a call that completed before the call returning b
\* began, a.timestamp <= b.timestamp, and on equal timestamps
\* a.sequence < b.sequence, so that a < b as Snowflakes.
C6_SuccessiveCallsIncrease ==
    \A i, j \in 1..Len(returned) :
        ReturnedBefore(i, j) =>
            /\ sf_timestamp(returned[i].id) <= sf_timestamp(returned[j].id)
            /\ sf_timestamp(returned[i].id) = sf_timestamp(returned[j].id)
                   => /\ sf_sequence(returned[i].id) < sf_sequence(returned[j].id)
                      /\ returned[i].id < returned[j].id

\* C7: every returned id was built from a sequence of at most MAX_SEQUENCE
\* and decodes to the generator's worker_id and process_id; no millisecond
\* carries more ids than it has sequence values.
C7_FieldsStayInRange ==
    /\ \A i \in 1..Len(returned) :
          /\ returned[i].sequence <= MAX_SEQUENCE
          /\ sf_worker_id(returned[i].id) = worker_id
          /\ sf_process_id(returned[i].id) = process_id
    /\ \A ts \in 0..MaxClock :
          Cardinality({i \in 1..Len(returned) : returned[i].timestamp = ts})
              <= MAX_SEQUENCE + 1

\* C8: an id whose timestamp is greater than that of the id emitted just
\* before it carries sequence 0, also after the spin-wait.
C8_SequenceResetsOnAdvance ==
    \A i \in 2..Len(returned) :
        sf_timestamp(returned[i].id) > sf_timestamp(returned[i - 1].id)
            => sf_sequence(returned[i].id) = 0 /\ returned[i].sequence = 0

\* The request of a response or task that went through the issuance of a
\* refresh/access pair (the login and the verification routes).
IssuingRoute(route) == route \in {"login", "verify"}

\* The code is one of the user's own: a code of the user's secret or one of
\* the user's backup codes.
OwnCode(user, code) ==
    \/ code.kind = "totp" /\ code.secret = TotpSecret(user)
    \/ code.kind = "backup" /\ code.secret \in CodesOf(user)

\* C2: a refresh/access pair is issued for a user with a TOTP secret only
\* after a code of that user was verified in the same attempt, with the login
\* request or at the verification endpoint together with a flow token issued
\* for that user; a correct password alone never yields the pair.
C2_TokensOnlyAfterSecondFactor ==
    /\ \A r \in responses :
          (r.status = "OK" /\ IssuingRoute(r.route) /\ HasTotp(r.user)) =>
              /\ r.verified
              /\ OwnCode(r.user, r.code)
              /\ r.route = "verify" =>
                    /\ r.presented \in DeliveredFlowTokens
                    /\ r.presented.sub = r.user
    /\ \A t \in Tasks :
          (task[t].pc \in {"issue", "commit"} /\ HasTotp(task[t].user)) =>
              task[t].verified /\ OwnCode(task[t].user, task[t].code)

\* A user with TOTP got the pair at the verification endpoint.
C2_Witness ==
    \E r \in responses :
        /\ r.status = "OK" /\ r.route = "verify" /\ HasTotp(r.user)
        /\ r.refresh # NoToken /\ r.access # NoToken

\* C3: a refresh token or flow token is accepted only if, at verification
\* time, a row with the token's user id, token id and kind exists and has
\* not expired.
C3_AcceptedOnlyWithLiveRecord ==
    /\ \A t \in Tasks :
          task[t].pc = "verify_user" => task[t].record_live
    /\ \A r \in responses :
          (r.route = "refresh" /\ r.status = "OK") => r.record_live

\* C4: of the verification calls that present the same backup code, at most
\* one returns success, whatever their interleaving.
C4_BackupCodeAcceptedOnce ==
    \A c \in BackupCodes :
        Cardinality({t \in Tasks :
                        task[t].verified /\ task[t].code = BackupInput(c)})
        + Cardinality({r \in responses :
                        r.verified /\ r.code = BackupInput(c)}) <= 1

\* C5: if minting the access token or the commit fails after the refresh row
\* was written, no refresh row of that attempt is persisted and the caller
\* gets InternalServerError; a refresh token is delivered only together with
\* its access token and only after the commit.
C5_IssuanceAllOrNothing ==
    /\ \A r \in responses :
          (r.refresh_row # 0 /\ r.status # "OK") =>
              /\ r.status = "InternalServerError"
              /\ ~\E row \in user_token :
                     row.id = r.refresh_row /\ row.token_type = "Refresh"
    /\ \A r \in responses :
          r.refresh # NoToken =>
              /\ r.committed
              /\ r.access # NoToken
              /\ r.access.refresh_token_id = r.refresh.jti

\* A commit failed after the refresh row was written, and another attempt
\* delivered its pair.
C5_Witness ==
    /\ \E r \in responses : r.refresh_row # 0 /\ r.error = "CommitError"
    /\ \E r \in responses : r.refresh # NoToken

\* C9: a flow token is accepted only when the client address and the
\* user agent observed at verification equal the ones bound at issuance; a
\* different value, or none, is rejected.
C9_BindingFieldsEnforced ==
    \A t \in Tasks :
        task[t].pc = "verify_user" =>
            /\ task[t].presented.ip_address = task[t].ip
            /\ task[t].presented.user_agent \in UserAgents =>
                   task[t].presented.user_agent = task[t].ua

\* C10: when a verification with a backup code was answered with success,
\* the code's expired flag is committed; on the login path it is committed as
\* soon as the code was accepted.
C10_SuccessMeansExpired ==
    /\ \A r \in responses :
          (r.status = "OK" /\ IssuingRoute(r.route) /\ ContainsDash(r.code)) =>
              r.code.secret \in BackupCodes /\ backup_expired[r.code.secret]
    /\ \A t \in Tasks :
          (task[t].route = "login" /\ task[t].verified
              /\ ContainsDash(task[t].code)) =>
              backup_expired[task[t].code.secret]

\* A backup code was accepted at the verification endpoint and the tokens
\* were delivered.
C10_Witness ==
    \E r \in responses :
        r.status = "OK" /\ r.route = "verify" /\ ContainsDash(r.code)

\* The claims new_access_token put into a token: subject, audience, token id,
\* expiration and the extension payload with the refresh token's id.
IssuedAccessClaims(token) ==
    [subject |-> token.sub, audience |-> token.aud, token_id |-> token.jti,
     expiration |-> token.exp,
     other |-> SomePayload(token.refresh_token_id)]

\* C11: verifying an access token before it expires returns the claims it
\* was minted with: subject, audience, token id, expiration, and the
\* extension payload carrying the refresh token's id.
C11_AccessTokenRoundTrip ==
    \A r \in responses :
        (r.access # NoToken /\ ~(r.access.exp < now)) =>
            verify_access_token(r.access) =
                [ok |-> TRUE, claims |-> IssuedAccessClaims(r.access)]

\* C12: a refresh token with a valid tag whose expiration has passed fails
\* with TokenExpired, a token whose tag does not verify fails with
\* InvalidToken, and a token that has not expired (and has its record)
\* verifies.
C12_ExpiredAndInvalidAreTold ==
    \A token \in DeliveredRefreshTokens :
        /\ token.exp < now =>
               /\ verify_refresh_token(token) = "TokenExpired"
               /\ verify_refresh_token(Forged) = "InvalidToken"
        /\ (~(token.exp < now) /\ LiveRecord(token, "Refresh")) =>
               verify_refresh_token(token) = "ok"

\* C13: a refresh token that passes the cryptographic verification but has
\* no matching record fails with TokenRevoked, an error kind of its own.
C13_MissingRecordIsRevoked ==
    \A token \in DeliveredRefreshTokens :
        (paseto_validate_token(token)
            /\ UserToken_get(token.sub, token.jti, "Refresh") = {}) =>
            verify_refresh_token(token) = "TokenRevoked"

\* The answers given so far, the watched ones included.
Answers == responses \cup rejected

\* C14: a login whose password is not accepted is answered WrongCredentials,
\* never NeedFurtherVerificationThrough2FA or Wrong2FA, and gets no flow
\* token, with or without a second factor and with or without a code; only a
\* login whose password verified reaches the second-factor steps.
C14_PasswordBeforeSecondFactor ==
    /\ \A r \in Answers :
          (r.route = "login" /\ r.user # NONE
              /\ ~(HasPassword(r.user) /\ r.password = "right")) =>
              /\ r.error = "WrongCredentials"
              /\ r.flow_out = NoToken
    /\ \A t \in Tasks :
          task[t].pc \in {"login_flow", "login_update", "issue", "commit"}
              /\ task[t].route = "login" =>
              HasPassword(task[t].user) /\ task[t].password = "right"

\* A user with a second factor sent a wrong password together with a code
\* and was answered WrongCredentials.
C14_Witness ==
    \E r \in rejected :
        /\ r.route = "login" /\ r.password = "wrong" /\ HasTotp(r.user)
        /\ r.code # NoCode /\ r.error = "WrongCredentials"

\* The login answers given before a user was loaded; they carry the
\* application id and the email that were sent.
LookupAnswers ==
    {r \in rejected : r.route = "login" /\ r.user = NONE
                          /\ r.error \in {"ApplicationDoesNotExist", "NotFound"}}

\* C15: a login naming an application that does not exist fails with
\* ApplicationDoesNotExist before any user is looked up; apart from the
\* email it echoes, the answer is the same whether or not a user has that
\* email.
C15_ApplicationBeforeUser ==
    \A r \in LookupAnswers :
        r.application_id \notin Applications =>
            r = LookupFailure(NewRequest("login"), r.application_id, r.email,
                              "ApplicationDoesNotExist")

\* A login with a registered user's email named an application that does not
\* exist and was answered ApplicationDoesNotExist.
C15_Witness ==
    \E r \in LookupAnswers :
        /\ r.application_id \notin Applications /\ r.email \in Users
        /\ r.error = "ApplicationDoesNotExist"

\* C16: a login with an email no user of the application has and a login
\* with a user's email and a wrong password are answered alike: the same
\* status, error and message, and no data.
C16_UniformFailure ==
    \A r \in rejected :
        (r.route = "login"
            /\ \/ r.error = "NotFound"
               \/ r.user # NONE /\ HasPassword(r.user) /\ r.password = "wrong") =>
            /\ LoginErrorResponse(r.error) =
                  [status |-> "Unauthorized", error |-> "Unauthorized",
                   message |-> "Invalid email or password"]
            /\ r.status = "Unauthorized"
            /\ r.flow_out = NoToken /\ r.refresh = NoToken
            /\ r.access = NoToken

\* A login with an email no user has was answered.
C16_Witness ==
    \E r \in LookupAnswers :
        /\ r.error = "NotFound" /\ r.email \notin Users
        /\ r.application_id \in Applications

\* The answer to a login of `user` with a wrong password and `code`.
WrongPasswordAnswer(user, code) ==
    LoginFailure([NewRequest("login") EXCEPT !.user = user, !.code = code,
                                             !.password = "wrong"],
                 "WrongCredentials")

\* C17: the login of a user without a password credential gets the answer
\* the login of a user with a wrong password gets, WrongCredentials in both
\* cases.
C17_NoCredentialAsWrongPassword ==
    \A r \in Answers :
        (r.route = "login" /\ r.user \in Users) =>
            /\ (HasPassword(r.user) /\ r.password = "wrong") =>
                   r = WrongPasswordAnswer(r.user, r.code)
            /\ ~HasPassword(r.user) =>
                   [r EXCEPT !.password = "wrong"] =
                       WrongPasswordAnswer(r.user, r.code)

\* A user without a password credential logged in and was answered
\* WrongCredentials.
C17_Witness ==
    \E r \in rejected :
        /\ r.route = "login" /\ r.user \in Users /\ ~HasPassword(r.user)
        /\ r.error = "WrongCredentials"

\* The answers NeedFurtherVerificationThrough2FA given so far.
StepUpAnswers ==
    {r \in responses : r.route = "login"
                          /\ r.error = "NeedFurtherVerificationThrough2FA"}

Exchangeable(token) ==
    /\ jwt_verify_token(token)
    /\ internal_verify_totp_flow_token(token, NONE, NONE, token.user_agent)
           = "ok"

CreatedUsers(email) ==
    {row \in user_rows : row.kind = "user" /\ row.email = email
                            /\ row.tx = NONE}

\* C21: of the registrations with the same email at most one creates a
\* user, and one that comes to write its rows when the email has been
\* registered meanwhile fails with AlreadyExists.
C21_DuplicateIsAlreadyExists ==
    [][/\ \A email \in RegistrationEmails :
             Cardinality(CreatedUsers(email))' <= 1
       /\ \A t \in Tasks :
             (task[t].pc = "register_email_address"
                 /\ EmailExists(task[t].user) /\ task'[t].pc = "idle") =>
                 \A r \in rejected' : r.error = "AlreadyExists"]_vars

\* The committed rows of the user `user_id`, by kind.
CommittedKinds(user_id) ==
    {row.kind : row \in {x \in user_rows : x.user_id = user_id
                                             /\ x.tx = NONE}}

\* C22: the user row, its email address row and its credential row are
\* committed together: of every user, all three rows are committed or none
\* is, whatever became of the registration that wrote them.
C22_UserRowsAllOrNone ==
    \A row \in user_rows :
        CommittedKinds(row.user_id) \in
            {{}, {"user", "email_address", "basic_auth"}}

\* A registration failed while its rows were being written, after another
\* one had committed a user with the same email.
C22_Witness ==
    /\ CreatedUsers("dave") # {}
    /\ \E r \in rejected :
          /\ r.route = "register" /\ r.user = "dave"
          /\ r.error = "InternalServerError"

\* The answers that delivered a refresh/access pair.
DeliveredPairs == {r \in responses : r.status = "OK" /\ r.refresh # NoToken}

\* C23: concurrent successful logins each get a pair of their own, with
\* token ids that no other delivered token carries, and every delivered
\* refresh token keeps verifying whatever was issued after it.
C23_OwnPairs ==
    \A r \in DeliveredPairs :
        /\ r.refresh.jti # r.access.jti
        /\ \A q \in DeliveredPairs \ {r} :
              {r.refresh.jti, r.access.jti}
                  \cap {q.refresh.jti, q.access.jti} = {}
        /\ verify_refresh_token(r.refresh) = "ok"

\* C24: a login that was answered with a refresh/access pair - at the login
\* route, with or without a second factor, or at the verification endpoint -
\* has recorded the last login on the user.
C24_LastLoginRecorded ==
    \A r \in DeliveredPairs :
        r.route \in {"login", "verify"} => last_login_at[r.user] # NoTime

\* C25: whichever handler mints it, an access token expires one
\* AccessTokenLifetime after the instant it is minted, a refresh token one
\* RefreshTokenLifetime after it and a flow token one FlowTokenLifetime
\* after it.
C25_IssuedLifetimes ==
    [][/\ \A t \in Tasks :
             /\ (task'[t].access # task[t].access
                    /\ task'[t].access # NoToken)
                   => task'[t].access.exp = now + AccessTokenLifetime
             /\ (task'[t].refresh # task[t].refresh
                    /\ task'[t].refresh # NoToken)
                   => task'[t].refresh.exp = now + RefreshTokenLifetime
       /\ \A r \in responses' \ responses :
             /\ (r.route = "refresh" /\ r.access # NoToken)
                   => r.access.exp = now + AccessTokenLifetime
             /\ r.flow_out # NoToken
                   => r.flow_out.exp = Timestamp(now + FlowTokenLifetime)]_vars

\* The verifier's counter at the instant `now`.
CurrentCounter == Timestamp(now) \div TotpInterval

\* C26: with tolerance 1, a code generated for counter c is accepted when
\* the verifier's counter is c - 1, c or c + 1 and is rejected when it is
\* c - 2 or c + 2.
C26_ToleranceWindow ==
    \A t \in Tasks :
        task[t].route = "totp" =>
            LET c == task[t].code.counter IN
            /\ CurrentCounter \in {c - 1, c, c + 1} => task[t].verified
            /\ CurrentCounter \in {c - 2, c + 2} => ~task[t].verified

\* A code of the step before the verifier's was accepted.
C26_Witness ==
    \E t \in Tasks :
        /\ task[t].route = "totp"
        /\ task[t].code.counter + 1 = CurrentCounter
        /\ task[t].verified

\* The Snowflakes built from components within the four fields.
InRange(sf) ==
    /\ sf.timestamp < Pow2(TIMESTAMP_BITS)
    /\ sf.worker_id <= MAX_WORKER_ID
    /\ sf.process_id <= MAX_PROCESS_ID
    /\ sf.sequence <= MAX_SEQUENCE

\* C27: for every component tuple within the four fields, decoding the
\* encoded value returns exactly the same four components.
C27_ComponentsRoundTrip ==
    \A i \in 1..Len(returned) :
        InRange(returned[i]) =>
            returned[i].components =
                [timestamp |-> returned[i].timestamp,
                 worker_id |-> returned[i].worker_id,
                 process_id |-> returned[i].process_id,
                 sequence |-> returned[i].sequence]

\* The largest value of every field was encoded and decoded.
C27_Witness ==
    \E i \in 1..Len(returned) :
        /\ returned[i].components =
              [timestamp |-> Pow2(TIMESTAMP_BITS) - 1,
               worker_id |-> MAX_WORKER_ID, process_id |-> MAX_PROCESS_ID,
               sequence |-> MAX_SEQUENCE]
        /\ InRange(returned[i])

\* C28: to_id_signed returns no negative and no truncated value: for a
\* Snowflake whose most significant bit is set it fails by assertion.
C28_SignedFailsOnTopBit ==
    \A i \in 1..Len(returned) :
        /\ returned[i].id >= Pow2(WORD_BITS - 1)
              => returned[i].signed.panicked
        /\ ~returned[i].signed.panicked
              => returned[i].signed.value = returned[i].id

\* The sequence values emitted with the timestamp the generator holds.
EmittedInCurrent ==
    {returned[i].sequence :
        i \in {j \in 1..Len(returned) :
                  returned[j].timestamp = last_timestamp}}

\* C29: a call of next_snowflake waits in the spin loop only after every
\* sequence value of the current millisecond has been emitted; apart from
\* that and from the lock, which a spinning caller alone holds on, nothing
\* keeps a call from returning.
C29_SpinOnlyWhenExhausted ==
    \A t \in Threads :
        sf_pc[t] = "spin" =>
            /\ lock = t
            /\ \A seq \in 0..MAX_SEQUENCE : seq \in EmittedInCurrent

\* What the caller observed differs from what the claims are bound to, or
\* the claims are of another token type.
Mismatch(r) ==
    \/ r.claims.token_type # "totp_flow"
    \/ r.device_id # NONE /\ r.claims.device_id # r.device_id
    \/ r.session_id # NONE /\ r.claims.session_id # r.session_id
    \/ r.user_agent # NONE /\ r.claims.user_agent # r.user_agent

\* C30: a flow token that has not expired and fails on its token type or on
\* a binding field fails with Invalid, whichever field it is and whether its
\* row is stored or not.
C30_MismatchIsInvalid ==
    \A r \in rejected :
        (Mismatch(r) /\ ~(Timestamp(now) > r.claims.exp))
            => r.result = "Invalid"

\* A session id that does not match, presented while no row is stored.
C30_Witness ==
    \E r \in rejected :
        /\ r.claims = IssuedFlow /\ r.session_id = "s1"
        /\ r.device_id = NONE /\ r.user_agent = "ua1"
        /\ user_token = {}
        /\ r.result = "Invalid"

\* The answers to a login with the right password of a user who has no
\* second factor.
PasswordOnlyLogins ==
    {r \in Answers :
        /\ r.route = "login" /\ r.user \in Users /\ r.password = "right"
        /\ HasPassword(r.user) /\ ~HasTotp(r.user)}

\* C31: a login with the right password of a user without a second factor
\* is answered with an access and a refresh token unless the server failed,
\* and the access token, verified before it expires, yields that user as
\* its subject.
C31_PasswordLoginVerifies ==
    \A r \in PasswordOnlyLogins :
        /\ r.status \in {"OK", "InternalServerError"}
        /\ r.status = "OK" =>
              /\ r.access # NoToken /\ r.refresh # NoToken
              /\ ~(r.access.exp < now) =>
                    /\ verify_access_token(r.access).ok
                    /\ verify_access_token(r.access).claims.subject = r.user

\* bob logged in with his password and his access token verifies now.
C31_Witness ==
    \E r \in PasswordOnlyLogins :
        /\ r.status = "OK" /\ r.user = "bob"
        /\ verify_access_token(r.access).ok
        /\ verify_access_token(r.access).claims.subject = "bob"

\* The TOTP secrets a user has.
\* C33: converting a negative signed integer into a Snowflake is always an
\* error.
C33_NegativeRejected ==
    \A i \in DOMAIN returned :
        returned[i].input < 0 => returned[i].result # "Ok"

\* C35: once the refresh row an access token was derived from is deleted,
\* validating the access token is rejected, although the token is intact and
\* has not expired.
C35_RevokedAccessRejected ==
    \A r \in responses :
        (/\ r.access # NoToken
         /\ ~(r.access.exp < now)
         /\ UserToken_get(r.access.sub, r.access.refresh_token_id,
                          "Refresh") = {}) =>
            ~verify_access_token(r.access).ok

\* C36: a flow token with a good signature that is presented to the
\* verification endpoint after its expiration is answered "Expired", not
\* "Invalid".
C36_ExpiredIsTold ==
    [][\A r \in rejected' :
          (/\ rejected' # rejected
           /\ r.route = "verify" /\ r.error \in {"Invalid", "Expired"}
           /\ r.presented # Forged
           /\ r.presented.exp < Timestamp(now))
              => r.error = "Expired"]_vars

\* C37: every stored token row has the id that the token it stores carries
\* as its token_id, so that a lookup by the token's user, token_id and kind
\* finds that row.
C37_RecordIdIsTokenId ==
    \A row \in user_token :
        /\ row.id = row.token.jti
        /\ row \in UserToken_get(row.token.sub, row.token.jti, row.token_type)

\* C38: a password is accepted only if it satisfies the whole policy: the
\* length bounds, each character-class minimum when strict requirements are
\* enabled, and, when the strength is checked and scored, a score of at
\* least the policy's min_zxcvbn_score.
C38_AcceptedMeetsPolicy ==
    \A r \in rejected :
        r.result = <<>> =>
            /\ Len(r.password) >= r.requirements.min_length
            /\ Len(r.password) <= r.requirements.max_length
            /\ r.requirements.enable_strict_requirements =>
                  /\ class_count(r.password, "lowercase")
                         >= r.requirements.min_lowercase
                  /\ class_count(r.password, "uppercase")
                         >= r.requirements.min_uppercase
                  /\ class_count(r.password, "numeric")
                         >= r.requirements.min_numbers
                  /\ class_count(r.password, "symbol")
                         >= r.requirements.min_symbols
            /\ (r.check_strength /\ r.strength.ok) =>
                  r.strength.score >= r.requirements.min_zxcvbn_score

SecretCount(user) ==
    Cardinality(TotpRows(user)) + (IF HasTotp(user) THEN 1 ELSE 0)

SetupKinds(user) ==
    {row.kind : row \in {x \in user_rows :
                            x.user_id = user /\ x.client = "pool"
                            /\ x.kind \in {"totp", "totp_backup_code",
                                            "totp_enabled"}}}

\* C34: setup is all-or-nothing: a user has a TOTP secret with all of its
\* backup codes and the totp-enabled flag, or nothing of a setup attempt is
\* stored.
C34_SetupAllOrNothing ==
    \A user \in Users :
        \/ SetupKinds(user) = {}
        \/ /\ SetupKinds(user) = {"totp", "totp_backup_code", "totp_enabled"}
           /\ Cardinality({row \in user_rows :
                               row.kind = "totp_backup_code"
                               /\ row.user_id = user})
                 = BackupCodesPerSecret

====
